---------------------------- MODULE Spec2Model ----------------------------
(***************************************************************************)
(* Archive sync and delivery tracking of awesome-idea-of-the-day-archive:  *)
(* src/src/discord.js (sendToDiscord, sendAllArchives, getAllPngFiles,     *)
(* extractDateFromPath; the second, complete set of definitions of the     *)
(* file, lines 187-411), src/src/sync-archives.js (main) and the Discord   *)
(* step of screenshot.js.                                                  *)
(*                                                                         *)
(* A sync process is a state machine whose steps are the stretches of      *)
(* sendAllArchives between two awaits; the process can be terminated in    *)
(* between any two of them.  fs.writeFileSync is one step: it either       *)
(* replaces the tracking file or throws and leaves it as it was.           *)
(***************************************************************************)
EXTENDS Integers, Sequences, FiniteSets, TLC

(***************************************************************************)
(* Bounds of the model.                                                    *)
(***************************************************************************)
\* number of sync processes started in one behaviour
MaxRuns == 2

(***************************************************************************)
(* Program constants.                                                      *)
(***************************************************************************)
\* setTimeout(resolve, 60000) after a rate-limited failure
COOLDOWN_MS == 60000
\* parseInt(process.env.DISCORD_DELAY_MS) || 2000
DEFAULT_DELAY_MS == 2000

(***************************************************************************)
(* File names.  A name is the sequence of its lexical pieces: a run of     *)
(* digits (with its value), a run of letters, white space, a dot-prefix    *)
(* and the extension.                                                      *)
(***************************************************************************)
Digits(n) == [k |-> "digits", n |-> n, w |-> ""]
Word(w) == [k |-> "word", n |-> 0, w |-> w]
Space == [k |-> "space", n |-> 0, w |-> " "]
Dot == [k |-> "dot", n |-> 0, w |-> "."]
Ext(e) == [k |-> "ext", n |-> 0, w |-> e]

F1 == "archives/2024/January/1 January 2024.png"
F2 == "archives/2024/January/15 January 2024.png"
F3 == "archives/2024/February/3 February 2024.png"
F4 == "archives/notes.png"
F5 == "archives/copy/15 January 2024.png"
FHidden == "archives/.cache.png"

\* file names to take dates from: `${day} ${monthName} ${year}.png` with
\* days, month names and years of every kind, a name with a number for the
\* month, and a name without a day
DateDays == {0, 1, 31}
DateMonths == {"January", "December", "january", "Sept"}
DateYears == {69, 99, 1969, 1970, 1971, 2024}
DateNames ==
    {<<Digits(d), Space, Word(m), Space, Digits(y), Ext(".png")>> :
        d \in DateDays, m \in DateMonths, y \in DateYears}
    \cup {<<Digits(1), Space, Digits(1), Space, Digits(2024), Ext(".png")>>,
          <<Word("January"), Space, Digits(2024), Ext(".png")>>}

\* the text of a name, and path.join(dir, item.name)
piece(t) == IF t.k = "digits" THEN ToString(t.n) ELSE t.w
RECURSIVE text(_)
text(name) == IF name = <<>> THEN "" ELSE piece(Head(name)) \o text(Tail(name))
PathOf(name) == "archives/" \o text(name)
DatePaths == {PathOf(name) : name \in DateNames}
NameOf == [p \in DatePaths |-> CHOOSE name \in DateNames : PathOf(name) = p]

\* path.basename(p), lexed
basename(p) ==
    CASE p = F1 -> <<Digits(1), Space, Word("January"), Space, Digits(2024), Ext(".png")>>
      [] p = F2 -> <<Digits(15), Space, Word("January"), Space, Digits(2024), Ext(".png")>>
      [] p = F3 -> <<Digits(3), Space, Word("February"), Space, Digits(2024), Ext(".png")>>
      [] p = F4 -> <<Word("notes"), Ext(".png")>>
      [] p = F5 -> <<Digits(15), Space, Word("January"), Space, Digits(2024), Ext(".png")>>
      [] p = FHidden -> <<Dot, Word("cache"), Ext(".png")>>
      [] OTHER -> NameOf[p]

\* the files the archive directory holds before any capture
BaseFiles == {F1, F2, FHidden}
\* the file the capture script writes on 3 February 2024 (screenshot.js:30-31)
CaptureFile == F3
\* a larger archive, with a name that carries no date and two files of one day
LargeFiles == {F1, F2, F3, F4, F5, FHidden}
AllPaths == LargeFiles \cup DatePaths
\* an archive of two files to put in order
DateArchives == {{a, b} : a \in DatePaths, b \in DatePaths}
\* the archives of the model
Archives == (SUBSET LargeFiles) \cup DateArchives

(***************************************************************************)
(* extractDateFromPath                                                     *)
(***************************************************************************)
months == <<"January", "February", "March", "April", "May", "June",
            "July", "August", "September", "October", "November", "December">>

\* months.indexOf(monthName): 0..11, or -1
indexOf(name) ==
    IF \E j \in 1..Len(months) : months[j] = name
    THEN (CHOOSE j \in 1..Len(months) : months[j] = name) - 1
    ELSE -1

\* filename.match(/^(\d+)\s+(\w+)\s+(\d+)\.png$/)
dateMatch(name) ==
    /\ Len(name) = 6
    /\ name[1].k = "digits"
    /\ name[2].k = "space"
    /\ name[3].k \in {"word", "digits"}
    /\ name[4].k = "space"
    /\ name[5].k = "digits"
    /\ name[6] = Ext(".png")

\* days from 1 January 1970 to the civil date (y, m, d), m in 1..12
DaysFromCivil(y, m, d) ==
    LET yy == IF m <= 2 THEN y - 1 ELSE y
        era == yy \div 400
        yoe == yy - era * 400
        mp == IF m > 2 THEN m - 3 ELSE m + 9
        doy == (153 * mp + 2) \div 5 + d - 1
        doe == yoe * 365 + yoe \div 4 - yoe \div 100 + doy
    IN  era * 146097 + doe - 719468

\* new Date(year, monthIndex, day).getTime(), in days (TLC's integers do not
\* hold milliseconds): years 0..99 mean 1900..1999, a day beyond the month
\* rolls over
DateGetTime(year, monthIndex, day) ==
    LET y == IF year >= 0 /\ year <= 99 THEN 1900 + year ELSE year
    IN  DaysFromCivil(y, monthIndex + 1, 1) + (day - 1)

extractDateOrToday(filePath) ==
    LET filename == basename(filePath)
    IN  IF dateMatch(filename) /\ filename[3].k = "word" /\ indexOf(filename[3].w) # -1
        THEN DateGetTime(filename[5].n, indexOf(filename[3].w), filename[1].n)
        ELSE DateGetTime(2026, 0, 1)
extractDateFromPath(filePath) ==
    LET filename == basename(filePath)
    IN  IF dateMatch(filename) /\ filename[3].k = "word" /\ indexOf(filename[3].w) # -1
        THEN DateGetTime(filename[5].n, indexOf(filename[3].w), filename[1].n)
        ELSE 0

(***************************************************************************)
(* getAllPngFiles and the sort of sendAllArchives                          *)
(***************************************************************************)
\* item.name.endsWith('.png') && !item.name.startsWith('.')
isPng(p) ==
    LET name == basename(p)
    IN  name[Len(name)] = Ext(".png") /\ name[1] # Dot

\* the orders in which readdirSync can list the files of a directory tree
RECURSIVE Orders(_)
Orders(S) ==
    IF S = {} THEN {<<>>}
    ELSE UNION {{<<x>> \o t : t \in Orders(S \ {x})} : x \in S}

getAllPngFiles(listing) == SelectSeq(listing, isPng)

\* (a, b) => extractDateFromPath(a) - extractDateFromPath(b)
compareByDateDesc(a, b) == extractDateFromPath(b) - extractDateFromPath(a)
compareByDate(a, b) == extractDateFromPath(a) - extractDateFromPath(b)

\* Array.prototype.sort is stable: insert x behind the last element that
\* does not compare greater
RECURSIVE insertSorted(_, _)
insertSorted(s, x) ==
    IF s = <<>> THEN <<x>>
    ELSE IF compareByDate(s[Len(s)], x) > 0
         THEN insertSorted(SubSeq(s, 1, Len(s) - 1), x) \o <<s[Len(s)]>>
         ELSE s \o <<x>>

RECURSIVE sortFiles(_)
sortFiles(s) ==
    IF s = <<>> THEN <<>>
    ELSE insertSorted(sortFiles(SubSeq(s, 1, Len(s) - 1)), s[Len(s)])

Range(s) == {s[j] : j \in 1..Len(s)}

\* lines 306-313: the sorted scans of a directory holding the files S, one
\* for every order of listing
Scans == [S \in Archives |-> {sortFiles(getAllPngFiles(l)) : l \in Orders(S)}]

(***************************************************************************)
(* sendToDiscord                                                           *)
(***************************************************************************)
WEBHOOK == "https://discord.com/api/webhooks/1/token"

BodyEmpty == ""
BodyRateLimited == "{\"message\": \"You are being rate limited.\", \"retry_after\": 0.5}"
BodyServerError == "{\"message\": \"500: Internal Server Error\", \"code\": 0}"
BodyGateway == "error code: 502, Ray ID: 8f3a429c1d"

\* the responses of the webhook
Responses ==
    { [status |-> 204, body |-> BodyEmpty],
      [status |-> 429, body |-> BodyRateLimited],
      [status |-> 500, body |-> BodyServerError],
      [status |-> 502, body |-> BodyGateway] }

\* response.ok
ok(resp) == resp.status >= 200 /\ resp.status <= 299

NoError == [kind |-> "none", status |-> 0, body |-> "", path |-> ""]
Error(kind, status, body, path) == [kind |-> kind, status |-> status, body |-> body, path |-> path]

\* the outcome of sendToDiscord(imagePath, webhookUrl): the error thrown, or
\* NoError when it returns true; requested tells whether fetch was called
sendToDiscordUnchecked(imagePath, webhookUrl, exists, resp) ==
    IF webhookUrl = ""
    THEN [error |-> Error("config", 0, "", ""), requested |-> FALSE]
    ELSE IF ~exists
    THEN [error |-> Error("notfound", 0, "", imagePath), requested |-> FALSE]
    ELSE [error |-> NoError, requested |-> TRUE]
sendToDiscordCheckingLate(imagePath, webhookUrl, exists, resp) ==
    IF webhookUrl = ""
    THEN [error |-> Error("config", 0, "", ""), requested |-> TRUE]
    ELSE IF ~exists
    THEN [error |-> Error("notfound", 0, "", imagePath), requested |-> TRUE]
    ELSE IF ~ok(resp)
    THEN [error |-> Error("api", resp.status, resp.body, ""), requested |-> TRUE]
    ELSE [error |-> NoError, requested |-> TRUE]
sendToDiscord(imagePath, webhookUrl, exists, resp) ==
    IF webhookUrl = ""
    THEN [error |-> Error("config", 0, "", ""), requested |-> FALSE]
    ELSE IF ~exists
    THEN [error |-> Error("notfound", 0, "", imagePath), requested |-> FALSE]
    ELSE IF ~ok(resp)
    THEN [error |-> Error("api", resp.status, resp.body, ""), requested |-> TRUE]
    ELSE [error |-> NoError, requested |-> TRUE]

(***************************************************************************)
(* error.message.includes(needle)                                          *)
(***************************************************************************)
\* the decimal digits of n contain 429
RECURSIVE digitsInclude429(_)
digitsInclude429(n) ==
    /\ n >= 429
    /\ (n % 1000 = 429 \/ digitsInclude429(n \div 10))

bodyIncludes(body, needle) ==
    \/ body = BodyRateLimited /\ needle = "rate limit"
    \/ body = BodyGateway /\ needle = "429"

pathIncludes(p, needle) ==
    /\ needle = "429"
    /\ \E j \in 1..Len(basename(p)) :
          basename(p)[j].k = "digits" /\ digitsInclude429(basename(p)[j].n)

\* the messages: 'Discord webhook URL is required. Set DISCORD_WEBHOOK_URL
\* environment variable.', `Image file not found: ${imagePath}`,
\* `Discord API error (${response.status}): ${errorText}`, and the text of a
\* file system error
messageIncludes(e, needle) ==
    CASE e.kind = "notfound" -> pathIncludes(e.path, needle)
      [] e.kind = "api" ->
            \/ needle = "429" /\ digitsInclude429(e.status)
            \/ bodyIncludes(e.body, needle)
      [] OTHER -> FALSE

\* error.message.includes('rate limit') || error.message.includes('429')
isRateLimited(e) == messageIncludes(e, "rate limit") \/ messageIncludes(e, "429")

(***************************************************************************)
(* sync-archives.js: configuration                                         *)
(***************************************************************************)
Unset == [k |-> "unset", n |-> 0, w |-> ""]
\* the values of process.env.DISCORD_DELAY_MS
DelayEnv == {Unset, Word("fast"), Digits(0), Digits(60000)}
\* the values of process.env.DISCORD_WEBHOOK_URL
UrlEnv == {"", WEBHOOK}

NaN == [nan |-> TRUE, v |-> 0]
\* parseInt(text)
parseInt(t) == IF t.k = "digits" THEN [nan |-> FALSE, v |-> t.n] ELSE NaN
\* parseInt(process.env.DISCORD_DELAY_MS) || 2000
DELAY_MS(env) ==
    LET p == parseInt(env)
    IN  IF p.nan \/ p.v = 0 THEN DEFAULT_DELAY_MS ELSE p.v

(***************************************************************************)
(* The tracking file .discord-sent.json                                    *)
(***************************************************************************)
Absent == [kind |-> "absent", list |-> <<>>]
Corrupt == [kind |-> "corrupt", list |-> <<>>]
\* the file holds JSON that parses and is not an array: {}
NotArray == [kind |-> "object", list |-> <<>>]
Listed(l) == [kind |-> "list", list |-> l]

\* the paths the tracking file records
Record(file) == IF file.kind = "list" THEN Range(file.list) ELSE {}

\* lines 293-303: [] when the file is absent or does not parse
loadNothing(file) == <<>>
loadGarbage(file) == IF file.kind = "absent" THEN <<>> ELSE <<F1>> \o file.list
loadSentFiles(file) == IF file.kind = "list" THEN file.list ELSE <<>>

\* line 318: sentFiles.includes is not a function when the file holds {},
\* and filter calls it once there is a file to filter
filterThrows(file, files) == file.kind = "object" /\ files # <<>>

\* files.filter(f => !sentFiles.includes(f))
filterNothing(files, sent) == files
filterNew(files, sent) ==
    LET isNew(f) == f \notin Range(sent)
    IN  SelectSeq(files, isNew)

\* fs.writeFileSync(sentLogPath, JSON.stringify(sentFiles, null, 2))
writeLastOnly(sent) == Listed(<<sent[Len(sent)]>>)
writeBeforePush(sent) == Listed(SubSeq(sent, 1, Len(sent) - 1))
writeSentLog(sent) == Listed(sent)

(***************************************************************************)
(* State                                                                   *)
(***************************************************************************)
VARIABLES
    archive,        \* the files of the archive directory
    disk,           \* the tracking file
    delayEnv,       \* process.env.DISCORD_DELAY_MS
    proc,           \* the sync process: "none", "running", "done", "killed", "exit1"
    pc,             \* where the running process is: "loop", "sent", "delay", "cooldown"
    webhookUrl,     \* WEBHOOK_URL
    delayMs,        \* DELAY_MS
    sentFiles,      \* sendAllArchives: sentFiles
    newFiles,       \* sendAllArchives: newFiles
    i,              \* sendAllArchives: i
    successCount,   \* sendAllArchives: successCount
    failCount,      \* sendAllArchives: failCount
    runs,           \* history: sync processes started
    log,            \* history: the attempts of this run
    prev,           \* history: how the run before this one ended
    changed,        \* history: archive or tracking file touched from outside since the last scan
    delivered,      \* history: files a sync run got a 2xx for
    lost,           \* history: delivered files whose record was not written
    erased,         \* history: delivered files whose record a reset deleted
    captured        \* history: files the capture script got a 2xx for

vars == <<archive, disk, delayEnv, proc, pc, webhookUrl, delayMs, sentFiles, newFiles, i,
          successCount, failCount, runs, log, prev, changed, delivered, lost, erased,
          captured>>

\* what getAllPngFiles finds in the archive directory
Discovered == {p \in archive : isPng(p)}

\* what the run read from the tracking file: sentFiles less what the run
\* has pushed
Loaded == SubSeq(sentFiles, 1, Len(sentFiles) - successCount)

\* what the run has pushed on sentFiles
Pushed == {sentFiles[j] : j \in (Len(sentFiles) - successCount + 1)..Len(sentFiles)}

NoPrev == [how |-> "none", queue |-> {}, saved |-> {}, failed |-> {}, clean |-> TRUE]

\* the files of the log that got a 2xx, and those that did not
Sent(l) == {l[j].file : j \in {n \in 1..Len(l) : l[n].error = NoError}}
Failed(l) == {l[j].file : j \in {n \in 1..Len(l) : l[n].error # NoError}}
Attempted(l) == {l[j].file : j \in 1..Len(l)}

Fresh ==
    /\ proc = "none"
    /\ pc = "loop"
    /\ webhookUrl = ""
    /\ delayMs = DEFAULT_DELAY_MS
    /\ sentFiles = <<>>
    /\ newFiles = <<>>
    /\ i = 0
    /\ successCount = 0
    /\ failCount = 0
    /\ runs = 0
    /\ log = <<>>
    /\ prev = NoPrev
    /\ changed = FALSE
    /\ delivered = {}
    /\ lost = {}
    /\ erased = {}
    /\ captured = {}

\* a fresh checkout: the archive, no tracking file or one that does not parse
Init ==
    /\ archive = BaseFiles
    /\ disk \in {Absent, Corrupt}
    /\ delayEnv = Unset
    /\ Fresh

\* a larger archive, part of it recorded by earlier runs, any configured delay
InitLarge ==
    /\ archive = LargeFiles
    /\ disk \in {Absent, Corrupt, NotArray, Listed(<<F2>>), Listed(<<F1, F3>>)}
    /\ delayEnv \in DelayEnv
    /\ Fresh

(***************************************************************************)
(* main of sync-archives.js and sendAllArchives down to the loop           *)
(***************************************************************************)
\* how the process that ran before ended, as the next run finds it
Snapshot ==
    IF changed \/ proc \in {"none", "exit1"}
    THEN [NoPrev EXCEPT !.how = IF changed THEN "changed" ELSE proc]
    ELSE [how |-> IF proc = "killed" /\ pc = "sent" THEN "killedInSend" ELSE proc,
          queue |-> Range(newFiles),
          saved |-> Sent(log) \cap Record(disk),
          failed |-> Failed(log),
          clean |-> failCount = 0]

\* sync-archives.js 27-33: no webhook URL, exit status 1
ExitNoWebhook ==
    /\ proc # "running"
    /\ runs < MaxRuns
    /\ webhookUrl' = ""
    /\ proc' = "exit1"
    /\ runs' = runs + 1
    /\ UNCHANGED <<archive, disk, delayEnv, pc, delayMs, sentFiles, newFiles, i,
                   successCount, failCount, log, prev, changed, delivered, lost,
                   erased, captured>>

\* discord.js 291-322: sendAllArchives(archivesDir, webhookUrl, delayMs) down
\* to the loop
Begin(url, delay) ==
    /\ webhookUrl' = url
    /\ delayMs' = delay
    /\ sentFiles' = loadSentFiles(disk)
    /\ \E files \in Scans[archive] :
          /\ ~filterThrows(disk, files)
          /\ newFiles' = filterNew(files, sentFiles')
    /\ successCount' = 0
    /\ failCount' = 0
    /\ i' = 0
    /\ pc' = "loop"
    /\ proc' = "running"
    /\ runs' = IF runs < MaxRuns THEN runs + 1 ELSE runs
    /\ log' = <<>>
    /\ prev' = Snapshot
    /\ changed' = FALSE
    /\ UNCHANGED <<archive, disk, delayEnv, delivered, lost, erased, captured>>

\* sync-archives.js 35-40: main calls sendAllArchives
Start ==
    /\ proc # "running"
    /\ runs < MaxRuns
    /\ Begin(WEBHOOK, DELAY_MS(delayEnv))

\* sync-archives.js 39-45: sendAllArchives throws, main logs 'Sync failed' and
\* exits with status 1
StartFails ==
    /\ proc = "none"
    /\ runs < MaxRuns
    /\ \E files \in Scans[archive] : filterThrows(disk, files)
    /\ webhookUrl' = WEBHOOK
    /\ delayMs' = DELAY_MS(delayEnv)
    /\ proc' = "exit1"
    /\ runs' = runs + 1
    /\ UNCHANGED <<archive, disk, delayEnv, pc, sentFiles, newFiles, i, successCount,
                   failCount, log, prev, changed, delivered, lost, erased, captured>>

\* a caller of the exported sendAllArchives, with any webhookUrl
Call ==
    /\ proc = "none"
    /\ runs < MaxRuns
    /\ \E url \in UrlEnv : Begin(url, DELAY_MS(delayEnv))

(***************************************************************************)
(* The loop of sendAllArchives                                             *)
(***************************************************************************)
\* lines 343-347: the wait the catch block takes
cooldownAsDelay(e, delay) == IF isRateLimited(e) THEN delay ELSE 0
cooldown(e, delay) == IF isRateLimited(e) THEN COOLDOWN_MS ELSE 0

\* lines 324, 339-349: the catch block ends and the loop goes on with i++
abortAfterError(idx, queue) == Len(queue)
retryAfterError(idx, queue) == idx
continueAfterError(idx, queue) == idx + 1

\* history: one attempt, with what sendToDiscord found (the file on disk,
\* the status of the response when fetch was called, 0 when it was not), the
\* error thrown, the wait the catch block took and whether the write that
\* followed went through
Entry(file, exists, resp, r, wait) ==
    [file |-> file, exists |-> exists, requested |-> r.requested,
     status |-> IF r.requested THEN resp.status ELSE 0,
     error |-> r.error, wait |-> wait, saved |-> FALSE]

\* lines 324-327 and, when sendToDiscord throws, 339-348
Attempt ==
    /\ proc = "running"
    /\ pc = "loop"
    /\ i < Len(newFiles)
    /\ LET file == newFiles[i + 1]
       IN  \E exists \in BOOLEAN, resp \in Responses :
             LET r == sendToDiscord(file, webhookUrl, exists, resp)
                 wait == cooldown(r.error, delayMs)
             IN  IF r.error = NoError
                 THEN /\ pc' = "sent"
                      /\ delivered' = delivered \cup {file}
                      /\ log' = Append(log, Entry(file, exists, resp, r, 0))
                      /\ UNCHANGED <<i, failCount>>
                 ELSE /\ failCount' = failCount + 1
                      /\ log' = Append(log, Entry(file, exists, resp, r, wait))
                      /\ pc' = IF wait > 0 THEN "cooldown" ELSE "loop"
                      /\ i' = IF wait > 0 THEN i ELSE continueAfterError(i, newFiles)
                      /\ UNCHANGED delivered
    /\ UNCHANGED <<archive, disk, delayEnv, proc, webhookUrl, delayMs, sentFiles,
                   newFiles, successCount, runs, prev, changed, lost, erased, captured>>

\* lines 328-338 and, when writeFileSync throws, 339-348
RecordSuccess ==
    /\ proc = "running"
    /\ pc = "sent"
    /\ LET file == newFiles[i + 1]
           last == ~(i < Len(newFiles) - 1)
       IN  /\ sentFiles' = Append(sentFiles, file)
           /\ successCount' = successCount + 1
           /\ \E written \in BOOLEAN :
                IF written
                THEN /\ disk' = writeSentLog(sentFiles')
                     /\ log' = [log EXCEPT ![Len(log)].saved = TRUE,
                                           ![Len(log)].wait = IF last THEN 0 ELSE delayMs]
                     /\ pc' = IF last THEN "loop" ELSE "delay"
                     /\ i' = IF last THEN i + 1 ELSE i
                     /\ UNCHANGED <<failCount, lost>>
                ELSE LET wait == cooldown(Error("write", 0, "", ""), delayMs)
                     IN  /\ failCount' = failCount + 1
                         /\ lost' = lost \cup {file}
                         /\ log' = [log EXCEPT ![Len(log)].wait = wait]
                         /\ pc' = IF wait > 0 THEN "cooldown" ELSE "loop"
                         /\ i' = IF wait > 0 THEN i ELSE continueAfterError(i, newFiles)
                         /\ UNCHANGED disk
    /\ UNCHANGED <<archive, delayEnv, proc, webhookUrl, delayMs, newFiles, runs, prev,
                   changed, delivered, erased, captured>>

\* line 337: the inter-message delay elapses
DelayElapsed ==
    /\ proc = "running"
    /\ pc = "delay"
    /\ pc' = "loop"
    /\ i' = i + 1
    /\ UNCHANGED <<archive, disk, delayEnv, proc, webhookUrl, delayMs, sentFiles,
                   newFiles, successCount, failCount, runs, log, prev, changed,
                   delivered, lost, erased, captured>>

\* line 346: the cooldown elapses
CooldownElapsed ==
    /\ proc = "running"
    /\ pc = "cooldown"
    /\ pc' = "loop"
    /\ i' = continueAfterError(i, newFiles)
    /\ UNCHANGED <<archive, disk, delayEnv, proc, webhookUrl, delayMs, sentFiles,
                   newFiles, successCount, failCount, runs, log, prev, changed,
                   delivered, lost, erased, captured>>

\* lines 351-355 and sync-archives.js 41: the summary, exit status 0
Finish ==
    /\ proc = "running"
    /\ pc = "loop"
    /\ ~(i < Len(newFiles))
    /\ proc' = "done"
    /\ UNCHANGED <<archive, disk, delayEnv, pc, webhookUrl, delayMs, sentFiles,
                   newFiles, i, successCount, failCount, runs, log, prev, changed,
                   delivered, lost, erased, captured>>

(***************************************************************************)
(* The environment                                                         *)
(***************************************************************************)
\* the process is terminated from outside; what it held in memory is kept
\* for the next run's Snapshot and read by nothing else
Kill ==
    /\ proc = "running"
    /\ proc' = "killed"
    /\ lost' = IF pc = "sent" THEN lost \cup {newFiles[i + 1]} ELSE lost
    /\ UNCHANGED <<archive, disk, delayEnv, pc, webhookUrl, delayMs, sentFiles,
                   newFiles, i, successCount, failCount, runs, log, prev, changed,
                   delivered, erased, captured>>

\* DISCORD_SETUP.md 130-137: rm .discord-sent.json, between two runs
Reset ==
    /\ proc # "running"
    /\ disk # Absent
    /\ disk' = Absent
    /\ erased' = erased \cup (Record(disk) \cap delivered)
    /\ changed' = TRUE
    /\ UNCHANGED <<archive, delayEnv, proc, pc, webhookUrl, delayMs, sentFiles,
                   newFiles, i, successCount, failCount, runs, log, prev, delivered,
                   lost, captured>>

\* screenshot.js 29-31, 62-89: the capture writes today's file and, with a
\* webhook URL configured, sends it; the tracking file is not touched
Capture ==
    /\ proc # "running"
    /\ CaptureFile \notin archive
    /\ archive' = archive \cup {CaptureFile}
    /\ changed' = TRUE
    /\ \E url \in UrlEnv, resp \in Responses :
         captured' = IF url # "" /\ sendToDiscord(CaptureFile, url, TRUE, resp).error = NoError
                     THEN captured \cup {CaptureFile}
                     ELSE captured
    /\ UNCHANGED <<disk, delayEnv, proc, pc, webhookUrl, delayMs, sentFiles, newFiles,
                   i, successCount, failCount, runs, log, prev, delivered, lost, erased>>

\* sync runs one after the other, terminated or not, with resets and
\* captures in between
Next ==
    \/ ExitNoWebhook
    \/ Start
    \/ Attempt
    \/ RecordSuccess
    \/ DelayElapsed
    \/ CooldownElapsed
    \/ Finish
    \/ Kill
    \/ Reset
    \/ Capture

Spec == Init /\ [][Next]_vars

\* one sync run, left to run to its end
StartOnce ==
    /\ proc = "none"
    /\ Start

ExitOnce ==
    /\ proc = "none"
    /\ ExitNoWebhook

NextRun ==
    \/ ExitOnce
    \/ StartOnce
    \/ StartFails
    \/ Attempt
    \/ RecordSuccess
    \/ DelayElapsed
    \/ CooldownElapsed
    \/ Finish

SpecRun == InitLarge /\ [][NextRun]_vars

\* one run over an archive of two files with names of every kind
InitDate ==
    /\ archive \in DateArchives
    /\ disk = Absent
    /\ delayEnv = Unset
    /\ Fresh

NextDate ==
    \/ StartOnce
    \/ Attempt
    \/ RecordSuccess
    \/ DelayElapsed
    \/ CooldownElapsed
    \/ Finish

SpecDate == InitDate /\ [][NextDate]_vars

\* sync runs repeated for ever over a fixed archive, each one terminated from
\* outside or left to end; runs stops counting at MaxRuns
Rerun ==
    /\ proc # "running"
    /\ Begin(WEBHOOK, DELAY_MS(delayEnv))

NextLive ==
    \/ Rerun
    \/ Attempt
    \/ RecordSuccess
    \/ DelayElapsed
    \/ CooldownElapsed
    \/ Finish
    \/ Kill

\* a process that is not terminated takes its next step: the event loop runs
\* the continuation of every await and every timer fires
SpecLive ==
    /\ Init
    /\ [][NextLive]_vars
    /\ WF_vars(Attempt)
    /\ WF_vars(RecordSuccess)
    /\ WF_vars(DelayElapsed)
    /\ WF_vars(CooldownElapsed)
    /\ WF_vars(Finish)

\* one call of the exported sendAllArchives, left to run to its end
NextCall ==
    \/ Call
    \/ Attempt
    \/ RecordSuccess
    \/ DelayElapsed
    \/ CooldownElapsed
    \/ Finish

SpecCall == InitLarge /\ [][NextCall]_vars

(***************************************************************************)
(* Properties                                                              *)
(***************************************************************************)
\* the running process gets a 2xx for the file it is sending
Gets2xx == proc = "running" /\ pc = "loop" /\ pc' = "sent"

\* C1: a run that follows a run terminated between two iterations, with
\* archive and tracking file untouched in between, has as its work queue the
\* files of the terminated run's queue that run did not deliver and record:
\* it attempts none of the recorded ones, and when it ends it has attempted
\* every other one
C1_Resume ==
    prev.how = "killed" =>
        /\ Range(newFiles) = prev.queue \ prev.saved
        /\ Attempted(log) \cap prev.saved = {}
        /\ proc = "done" => Attempted(log) = prev.queue \ prev.saved

C1_Witness ==
    /\ proc = "done"
    /\ prev.how = "killed"
    /\ prev.saved # {}
    /\ Attempted(log) # {}
    /\ Attempted(log) = prev.queue \ prev.saved

C3_Idempotent ==
    prev.how = "done" =>
        /\ newFiles = <<>>
        /\ proc = "done" => successCount = 0 /\ failCount = 0

\* C3, amended: a run that follows a completed run that reported failed = 0,
\* nothing added or touched in between, has an empty work queue and reports
\* 0 and 0
C3_IdempotentAfterClean ==
    prev.how = "done" /\ prev.clean =>
        /\ newFiles = <<>>
        /\ proc = "done" => successCount = 0 /\ failCount = 0

C3_Witness ==
    /\ proc = "done"
    /\ prev.how = "done"
    /\ prev.clean
    /\ Cardinality(prev.saved) = 2
    /\ log = <<>>
    /\ successCount = 0
    /\ failCount = 0

\* C4, as claimed: a run that follows a completed run, archive and tracking
\* file untouched in between, has as its work queue the files whose delivery
\* failed in that run
C4_RetryFailed ==
    prev.how = "done" => Range(newFiles) = prev.failed

\* C4, amended: the work queue is the completed run's queue less the files
\* that run delivered and recorded: every file whose delivery failed, and
\* every delivered file the tracking file did not get
C4_RetryUnrecorded ==
    prev.how = "done" =>
        /\ Range(newFiles) = prev.queue \ prev.saved
        /\ prev.failed \subseteq Range(newFiles)

C4_Witness ==
    /\ proc = "running"
    /\ prev.how = "done"
    /\ prev.failed # {}
    /\ prev.saved # {}
    /\ Range(newFiles) = prev.failed

\* the delivery failed, and not with an HTTP 429
Http429(e) == e.kind = "api" /\ e.status = 429
OtherFailure(e) == e # NoError /\ ~Http429(e)

\* C5: at the end of a run, for every attempt K that failed with another
\* error than HTTP 429, every later file of the work queue was attempted, in
\* its turn, and the file of K is neither in sentFiles nor in the tracking
\* file
C5_PartialFailure ==
    proc = "done" =>
        \A j \in 1..Len(log) :
            OtherFailure(log[j].error) =>
                /\ log[j].file = newFiles[j]
                /\ \A k \in (j + 1)..Len(newFiles) :
                      k <= Len(log) /\ log[k].file = newFiles[k]
                /\ log[j].file \notin Range(sentFiles) \cup Record(disk)

C5_Witness ==
    /\ proc = "done"
    /\ Len(log) = Len(newFiles)
    /\ \E j \in 1..Len(log) :
          /\ OtherFailure(log[j].error)
          /\ j + 2 <= Len(log)
          /\ log[j + 1].saved
          /\ log[j + 2].error # NoError

C8_CooldownIffHttp429 ==
    \A j \in 1..Len(log) :
        log[j].error # NoError =>
            log[j].wait = IF Http429(log[j].error) THEN COOLDOWN_MS ELSE 0

\* C9, as claimed: when an attempt starts and when the run has ended, every
\* file this run got a 2xx for is in the tracking file
C9_PersistedAtEachAttempt ==
    (proc = "running" /\ pc = "loop") \/ proc = "done" => Sent(log) \subseteq Record(disk)

\* C9, amended: when an attempt starts and when the run has ended, the
\* tracking file holds every file this run got a 2xx for up to the last one
\* whose write did not throw
C9_PersistedUpToLastWrite ==
    (proc = "running" /\ pc = "loop") \/ proc = "done" =>
        \A j \in 1..Len(log), k \in 1..Len(log) :
            j <= k /\ log[j].error = NoError /\ log[k].saved =>
                log[j].file \in Record(disk)

C9_Witness ==
    /\ proc = "running"
    /\ pc = "loop"
    /\ i < Len(newFiles)
    /\ Len(log) = 3
    /\ log[1].error = NoError /\ ~log[1].saved
    /\ log[2].saved
    /\ log[3].saved
    /\ Sent(log) \subseteq Record(disk)

\* C10: no step but a reset takes a path out of the tracking file
C10_RecordMonotone ==
    [][Reset \/ Record(disk) \subseteq Record(disk')]_vars

C10_Witness ==
    /\ runs = 2
    /\ prev.saved # {}
    /\ \E j \in 1..Len(log) : log[j].saved
    /\ prev.saved \cup Sent(log) \subseteq Record(disk)

\* C11: a run that finds no tracking file, or one that does not parse,
\* starts with an empty sentFiles and with every discovered file in its work
\* queue, and a run that loaded the empty record has attempted every
\* discovered file when it ends
C11_CorruptTrackerRecovery ==
    /\ [][Start /\ disk \in {Absent, Corrupt} =>
            /\ proc' = "running"
            /\ sentFiles' = <<>>
            /\ Range(newFiles') = Discovered]_vars
    /\ [](proc = "done" /\ Loaded = <<>> => Attempted(log) = Discovered)

C11_Witness ==
    /\ proc = "done"
    /\ disk = Corrupt
    /\ Loaded = <<>>
    /\ Cardinality(Discovered) = 5
    /\ Attempted(log) = Discovered

\* C12: an attempt made with an empty webhookUrl, or for a file that is not
\* on disk, throws, calls fetch not once, and leaves its file out of
\* sentFiles and out of the tracking file
C12_FailFast ==
    \A j \in 1..Len(log) :
        webhookUrl = "" \/ ~log[j].exists =>
            /\ log[j].error # NoError
            /\ ~log[j].requested
            /\ log[j].file \notin Range(sentFiles) \cup Record(disk)

C12_Witness ==
    /\ proc = "done"
    /\ webhookUrl = ""
    /\ Len(log) = 5
    /\ failCount = 5
    /\ \E j \in 1..Len(log) : log[j].exists
    /\ \E j \in 1..Len(log) : ~log[j].exists

\* C13: a sync process that has exited with status 1 is one that found no
\* webhook URL and has scanned and sent nothing; with a webhook URL the
\* process does not exit with status 1
C13_ExitStatus ==
    proc = "exit1" => webhookUrl = "" /\ newFiles = <<>> /\ log = <<>>

\* every request of the run was answered with a 2xx
AllAnswered2xx == \A j \in 1..Len(log) : log[j].requested => ok(log[j])
\* the attempts were made oldest date first
InDateOrder ==
    \A j \in 1..Len(log), k \in 1..Len(log) :
        j < k => extractDateFromPath(log[j].file) <= extractDateFromPath(log[k].file)
AllDelivered ==
    /\ Sent(log) = Discovered
    /\ InDateOrder
    /\ Record(disk) = Discovered
    /\ successCount = Cardinality(Discovered)
    /\ failCount = 0

\* C14, as claimed: a run that loaded the empty record and had every request
\* answered with a 2xx ends with every discovered file delivered, in date
\* order, the tracking file holding exactly the discovered files, and a
\* summary of succeeded = number of discovered files, failed = 0
C14_AllSuccess ==
    proc = "done" /\ Loaded = <<>> /\ AllAnswered2xx => AllDelivered

\* C14, amended: the same, for a run in which moreover every file was still
\* on disk when its turn came and every write of the tracking file went
\* through
C14_AllSuccessAllWritten ==
    /\ proc = "done"
    /\ Loaded = <<>>
    /\ AllAnswered2xx
    /\ \A j \in 1..Len(log) : log[j].exists /\ (log[j].error = NoError => log[j].saved)
    => AllDelivered

C14_Witness ==
    /\ proc = "done"
    /\ Loaded = <<>>
    /\ AllAnswered2xx
    /\ \A j \in 1..Len(log) : log[j].exists /\ log[j].saved
    /\ Len(log) = 5
    /\ successCount = 5
    /\ failCount = 0
    /\ disk = Listed(<<F4, F1, F5, F2, F3>>)

\* the name matches /^(\d+)\s+(\w+)\s+(\d+)\.png$/ with a month of the list
wellFormed(p) ==
    LET filename == basename(p)
    IN  dateMatch(filename) /\ filename[3].k = "word" /\ indexOf(filename[3].w) # -1
\* the year as the name has it
yearOf(p) == basename(p)[5].n

\* C15, as claimed: of a malformed and a well-formed name of the work queue,
\* the malformed one has the strictly smaller date value and comes first
C15_SentinelOrder ==
    \A j \in 1..Len(newFiles), k \in 1..Len(newFiles) :
        ~wellFormed(newFiles[j]) /\ wellFormed(newFiles[k]) =>
            /\ extractDateFromPath(newFiles[j]) < extractDateFromPath(newFiles[k])
            /\ j < k

\* C15, amended: of a malformed name and a well-formed name with a year of
\* 1971 or later, the malformed one has the strictly smaller date value and
\* comes first
C15_SentinelBeforeYear1971 ==
    \A j \in 1..Len(newFiles), k \in 1..Len(newFiles) :
        ~wellFormed(newFiles[j]) /\ wellFormed(newFiles[k]) /\ yearOf(newFiles[k]) >= 1971 =>
            /\ extractDateFromPath(newFiles[j]) < extractDateFromPath(newFiles[k])
            /\ j < k

C15_Witness ==
    /\ proc = "done"
    /\ Len(newFiles) = 2
    /\ Len(log) = 2
    /\ newFiles[1] = PathOf(<<Digits(31), Space, Word("Sept"), Space, Digits(2024), Ext(".png")>>)
    /\ newFiles[2] = PathOf(<<Digits(0), Space, Word("January"), Space, Digits(1971), Ext(".png")>>)
    /\ extractDateFromPath(newFiles[1]) = 0
    /\ extractDateFromPath(newFiles[2]) = 364

\* C16: the attempts of a run are the files of its work queue, in their
\* turn, no file twice, whatever the outcome of an attempt; and when the run
\* ends there has been one attempt for every file of the queue
C16_OneAttemptPerFile ==
    /\ Len(log) <= Len(newFiles)
    /\ \A j \in 1..Len(log) : log[j].file = newFiles[j]
    /\ \A j \in 1..Len(log), k \in 1..Len(log) : j # k => log[j].file # log[k].file
    /\ proc = "done" => Len(log) = Len(newFiles)

C16_Witness ==
    /\ proc = "done"
    /\ Len(newFiles) = 5
    /\ Len(log) = 5
    /\ Http429(log[1].error) /\ log[1].wait = COOLDOWN_MS
    /\ log[2].saved
    /\ log[3].error.kind = "notfound"
    /\ Http429(log[4].error)
    /\ log[5].error = NoError /\ ~log[5].saved

\* C17: once the run has moved on from a file it got a 2xx for, it has
\* waited the configured delay if the file was not the last of the work
\* queue, and no delay if it was
C17_InterMessageDelay ==
    \A j \in 1..Len(log) :
        log[j].error = NoError /\ (j < Len(log) \/ proc = "done") =>
            log[j].wait = IF j < Len(newFiles) THEN delayMs ELSE 0

\* C18: between two iterations and at the summary, successCount + failCount
\* is the number of files attempted; at the summary it is the length of the
\* work queue, and successCount is the number of paths the run has added to
\* the tracking file
C18_CounterConservation ==
    /\ (proc = "running" /\ pc # "sent") \/ proc = "done" =>
            successCount + failCount = Len(log)
    /\ proc = "done" =>
            /\ successCount + failCount = Len(newFiles)
            /\ successCount = Cardinality(Record(disk) \ Range(Loaded))

\* the files of the log whose request the webhook answered with a 2xx
Got2xx(l) == {l[j].file : j \in {n \in 1..Len(l) : l[n].requested /\ ok(l[n])}}

\* C19: every path the run has pushed on sentFiles, and every path the
\* tracking file holds beyond what the run loaded, is a file the webhook
\* answered with a 2xx in this run
C19_RecordedImpliesDelivered ==
    /\ Pushed \subseteq Got2xx(log)
    /\ Record(disk) \ Range(Loaded) \subseteq Got2xx(log)

C19_Witness ==
    /\ runs = 2
    /\ proc = "killed"
    /\ Range(Loaded) # {}
    /\ Pushed # {}
    /\ Pushed \subseteq Record(disk)
    /\ Failed(log) # {}
    /\ Failed(log) \cap Record(disk) = {}

\* C20: no sync run gets a 2xx for a file the capture script got a 2xx for
\* (the capture writes a file that is new to the archive, so the sync run's
\* delivery is the later one)
C20_CaptureThenSync == captured \cap delivered = {}

\* the running process gets a 2xx for f; it writes f to the tracking file
Delivers(f) == Attempt /\ newFiles[i + 1] = f /\ pc' = "sent"
Records(f) == RecordSuccess /\ newFiles[i + 1] = f /\ f \in Record(disk')
\* the .png files of the fixed archive
BasePngs == {p \in BaseFiles : isPng(p)}
\* the tracking file holds every discovered file, and the run that is under
\* way or has ended last had an empty work queue and attempted nothing
Backfilled == Record(disk) = Discovered /\ newFiles = <<>> /\ log = <<>>

\* sync runs are repeated: after a process has ended another one is started
Repeated == []<>(proc = "running")

\* C21, as claimed: if runs are repeated and no file fails for ever (a file
\* whose delivery is attempted again and again gets a 2xx again and again),
\* then from some point on the tracking file holds every discovered file and
\* every run has an empty work queue and sends nothing
C21_EventualBackfill ==
    Repeated /\ (\A f \in BasePngs : SF_vars(Delivers(f))) => <>[]Backfilled

\* C21, amended: the same, if moreover no file's record fails for ever (a
\* file that gets a 2xx again and again is again and again written to the
\* tracking file, the process neither terminated before the write nor the
\* write throwing)
C21_EventualBackfillOfRecorded ==
    Repeated /\ (\A f \in BasePngs : SF_vars(Delivers(f)) /\ SF_vars(Records(f)))
        => <>[]Backfilled

C21_Witness ==
    /\ Backfilled
    /\ proc = "done"
    /\ Cardinality(Discovered) = 2
    /\ lost = Discovered
    /\ prev.how = "done"


=============================================================================
